---- MODULE Spec2Model ----
(***************************************************************************)
(* Model of the ListenBrainz import scripts: the run of submit_listens     *)
(* (listenbrainz-vimusic-import.py, listenbrainz-spotify-import.py), the   *)
(* feedback run of the spotify script, and ListenBrainzClient              *)
(* (listenbrainz.py): its rate-limit gate and its 429 retry.               *)
(*                                                                         *)
(* Time: `clock` is time.time() in ticks of 1/TicksPerSec second, so that  *)
(* a float clock has a fractional part; next_request_time is in whole      *)
(* seconds, as int() leaves it.                                            *)
(***************************************************************************)
EXTENDS Integers, Sequences, FiniteSets, TLC

VARIABLES
    workflow,           \* which entry point runs: "submit_listens" | "submit_feedback"
    token,              \* the token argument of the run
    input,              \* the adapter's list, as returned by process_*_import (kept for reference)
    pc,                 \* position of the run
    listens,            \* local `listens` of the run
    total_count,        \* local total_count
    submitted_count,    \* local submitted_count
    chunk_index,        \* how many chunks the generator of chunks() has yielded
    stdout,             \* what the run has printed
    user_token,         \* client.user_token: <<>> is None, <<t>> is the string t
    next_request_time,  \* client.__next_request_time, whole seconds
    payload,            \* argument `payload` of the running _submit call
    listen_type,        \* argument `listen_type` of the running _submit call
    retry,              \* argument `retry` of the innermost _submit frame
    response,           \* the response object last read by _submit
    request,            \* the request last put on the wire
    clock,              \* time.time(), in ticks
    raised,             \* the exception that ended the run, "" if none
    errors_logged,      \* how many responses logger.error has reported
    batches,            \* history: the lists handed to import_tracks, in order
    statuses,           \* history: the statuses received by the running _submit call
    attempts,           \* history: requests sent by the running _submit call
    resetDue,           \* history: tick before which the last handled response asked for silence
    track_data,         \* the dictionary given to Track.from_dict
    track_built,        \* the Track built from it: <<>> is none yet, <<t>> is the object t
    peer                \* a second ListenBrainzClient of the process and its _submit call

vars == << workflow, token, input, pc, listens, total_count, submitted_count,
           chunk_index, stdout, user_token, next_request_time, payload,
           listen_type, retry, response, request, clock, raised,
           errors_logged, batches, statuses, attempts, resetDue, track_data,
           track_built, peer >>

-----------------------------------------------------------------------------
(* Bounds of the model *)

MaxLen == 2         \* short adapter lists are enumerated up to this length
TicksPerSec == 2    \* resolution of the clock
MaxClock == 3       \* last tick of the clock
MaxReset == 1       \* largest X-RateLimit-Reset-In a response carries

(* Program constants *)

CHUNK_SIZE == 200   \* chunks(listens, 200)
MAX_RETRY == 5      \* retry < 5

Stamps == 1..2                  \* listened_at of the short lists
LongLens == {200, 201, 450}     \* lengths of the long lists
Tokens == {"tokA", "tokB"}
Statuses == {200, 429, 500}
HeaderNames == {"X-RateLimit-Remaining", "X-RateLimit-Reset-In"}

Min(a, b) == IF a < b THEN a ELSE b

-----------------------------------------------------------------------------
(* Track: listenbrainz.py, class Track.  An optional value is <<>> for     *)
(* None and <<v>> for v.  A listen is <<listened_at, ref>>, ref being the  *)
(* reference to a Track object; Heap(ref) is the object.                   *)

None == <<>>

Track(artist_name, track_name, release_name, additional_info) ==
    [ artist_name |-> artist_name, track_name |-> track_name,
      release_name |-> release_name, additional_info |-> additional_info ]

\* `if self.release_name:` -- None and "" are falsy
TruthyStr(o) == o # None /\ o[1] # ""

\* `if self.additional_info:` -- None and {} are falsy
TruthyDict(o) == o # None /\ DOMAIN o[1] # {}

to_dict(t) ==
    LET data == [ artist_name |-> t.artist_name, track_name |-> t.track_name ]
        rel  == IF TruthyStr(t.release_name)
                THEN ("release_name" :> t.release_name[1]) ELSE << >>
        info == IF TruthyDict(t.additional_info)
                THEN ("additional_info" :> t.additional_info[1]) ELSE << >>
    IN  [ k \in DOMAIN data \cup DOMAIN rel \cup DOMAIN info |->
            IF k \in DOMAIN data THEN data[k]
            ELSE IF k \in DOMAIN rel THEN rel[k] ELSE info[k] ]

\* the Track objects the adapters build: vimusic style (no release, duration
\* possibly 0) and spotify style (release name, duration_ms)
Heap(ref) ==
    IF ref % 2 = 1
    THEN Track("artist", "title", None,
               << [ duration |-> (ref % 4) \div 2, music_service |-> "youtube.com" ] >>)
    ELSE Track("artist", "title", << "album" >>,
               << [ duration_ms |-> 1000, music_service |-> "spotify.com" ] >>)

_get_payload(track, listened_at) ==
    IF listened_at # None
    THEN [ track_metadata |-> to_dict(track), listened_at |-> listened_at[1] ]
    ELSE [ track_metadata |-> to_dict(track) ]

_get_payload_many(tracks) ==
    SubSeq([ i \in 1..Len(tracks) |->
               _get_payload(Heap(tracks[i][2]), << tracks[i][1] >>) ],
           1, Len(tracks))

\* `data.get(key, None)`
get(d, key) == IF key \in DOMAIN d THEN << d[key] >> ELSE None

\* Track.from_dict(data): data["artist_name"] and data["track_name"] raise
\* KeyError on a missing key; nothing else is looked at
from_dict_raises(d) == ~({ "artist_name", "track_name" } \subseteq DOMAIN d)

from_dict(d) ==
    Track(d["artist_name"], d["track_name"],
          get(d, "release_name"), get(d, "additional_info"))

\* the dictionaries from_dict is tried on: each key absent, empty or set
OptField(key, values) == { << >> } \cup { (key :> v) : v \in values }

Infos == { << >>, [ duration |-> 0 ], [ duration |-> 180 ] }

Dicts ==
    { a @@ t @@ r @@ i :
        a \in OptField("artist_name", { "", "artist" }),
        t \in OptField("track_name", { "", "title" }),
        r \in OptField("release_name", { "", "album" }),
        i \in OptField("additional_info", Infos) }

-----------------------------------------------------------------------------
(* sorted(listens, key=lambda k: k[0], reverse=True): Python's sort is a   *)
(* stable merge sort; with reverse=True equal keys keep their order.       *)

Key(k) == k[1]

\* Positions in the merge of two descending runs a and b: an element of a
\* goes behind the elements of b with a greater key, an element of b behind
\* the elements of a with a greater or equal key (on equal keys a goes first).
LeftPositions(a, b) ==
    SubSeq([ i \in 1..Len(a) |->
               i + Cardinality({ j \in 1..Len(b) : Key(b[j]) > Key(a[i]) }) ],
           1, Len(a))

RightPositions(a, b) ==
    SubSeq([ j \in 1..Len(b) |->
               j + Cardinality({ i \in 1..Len(a) : Key(a[i]) >= Key(b[j]) }) ],
           1, Len(b))

Interleave(a, b, pa, pb) ==
    SubSeq([ p \in 1..(Len(a) + Len(b)) |->
               IF \E i \in 1..Len(a) : pa[i] = p
               THEN a[CHOOSE i \in 1..Len(a) : pa[i] = p]
               ELSE b[CHOOSE j \in 1..Len(b) : pb[j] = p] ],
           1, Len(a) + Len(b))

\* faulty variant: on equal keys the right run goes first
MergeRuns_RightFirst(a, b) ==
    CHOOSE r \in { Interleave(b, a, pb, pa) :
                     pb \in { LeftPositions(b, a) }, pa \in { RightPositions(b, a) } } : TRUE

\* (the positions are bound by a quantifier so that each is computed once)
MergeRuns(a, b) ==
    CHOOSE r \in { Interleave(a, b, pa, pb) :
                     pa \in { LeftPositions(a, b) }, pb \in { RightPositions(a, b) } } : TRUE

RECURSIVE sorted(_)
sorted(s) ==
    IF Len(s) <= 1 THEN s
    ELSE CHOOSE r \in { MergeRuns(a, b) :
                          a \in { sorted(SubSeq(s, 1, Len(s) \div 2)) },
                          b \in { sorted(SubSeq(s, Len(s) \div 2 + 1, Len(s))) } } : TRUE

(* chunks(input_list, chunk_size): range(0, len, chunk_size) has           *)
(* ceil(len / chunk_size) indices; the k-th chunk is the slice             *)
(* input_list[index : index + chunk_size] for index = (k-1) * chunk_size.  *)

\* faulty variant: an empty list still yields one (empty) chunk
NumChunks_AtLeastOne(input_list, chunk_size) ==
    IF Len(input_list) = 0 THEN 1
    ELSE (Len(input_list) + chunk_size - 1) \div chunk_size

\* faulty variant: the last, shorter chunk is lost
NumChunks_Floor(input_list, chunk_size) == Len(input_list) \div chunk_size

NumChunks(input_list, chunk_size) ==
    (Len(input_list) + chunk_size - 1) \div chunk_size

Chunk(input_list, chunk_size, k) ==
    SubSeq(input_list, (k - 1) * chunk_size + 1,
           Min(k * chunk_size, Len(input_list)))

-----------------------------------------------------------------------------
(* ListenBrainzClient *)

NoResponse == [ status |-> 0, headers |-> [ h \in {} |-> 0 ] ]
NoRequest == [ authorization |-> "", listen_type |-> "", payload |-> << >> ]

\* "Authorization": f"Token {self.user_token}"
Authorization(tok) == IF tok = None THEN "Token None" ELSE "Token " \o tok[1]

\* response.getheader(name, default)
getheader(resp, name, default) ==
    IF name \in DOMAIN resp.headers THEN resp.headers[name] ELSE default

\* int(x) of a non-negative time given in ticks
IntSeconds(ticks) == ticks \div TicksPerSec

\* faulty variant: the comparison is the wrong way round
MustWait_Reversed(gate, now) == gate * TicksPerSec < now

\* _wait_for_ratelimit: `if self.__next_request_time > now`
MustWait(gate, now) == gate * TicksPerSec > now

\* faulty variant: the gate is set whatever quota remains
_handle_ratelimit_IgnoreRemaining(gate, resp, now) ==
    IntSeconds(now + getheader(resp, "X-RateLimit-Reset-In", 0) * TicksPerSec)

\* _handle_ratelimit: the value of __next_request_time after the response
_handle_ratelimit(gate, resp, now) ==
    LET remaining == getheader(resp, "X-RateLimit-Remaining", 0)
        reset_in  == getheader(resp, "X-RateLimit-Reset-In", 0)
    IN  IF remaining = 0 THEN IntSeconds(now + reset_in * TicksPerSec) ELSE gate

\* faulty variant: one retry too many
ShouldRetry_OffByOne(status, r) == status = 429 /\ r <= MAX_RETRY

\* faulty variant: a 429 is retried however many retries were made
ShouldRetry_Unbounded(status, r) == status = 429

\* faulty variant: every failure is retried
ShouldRetry_AnyFailure(status, r) == status # 200 /\ r < MAX_RETRY

\* `if response.status == 429 and retry < 5`
ShouldRetry(status, r) == status = 429 /\ r < MAX_RETRY

\* no second client has been constructed
NoPeer == [ pc |-> "none", user_token |-> None, next_request_time |-> 0, retry |-> 0 ]

\* the responses the server may give
Responses ==
    { [ status |-> s, headers |-> h ] :
        s \in Statuses,
        h \in UNION { [ D -> 0..MaxReset ] : D \in SUBSET HeaderNames } }

-----------------------------------------------------------------------------
(* The runs: the adapter's list, the token and the entry point *)

\* a list whose i-th listen has stamp f[i] and its own Track object
ListOf(f) == SubSeq([ i \in DOMAIN f |-> << f[i], i >> ], 1, Len(f))

ShortLists == { ListOf(f) : f \in UNION { [ 1..n -> Stamps ] : n \in 0..MaxLen } }

Ascending(n) == ListOf([ i \in 1..n |-> i ])
Cyclic(n) == ListOf([ i \in 1..n |-> (i % 3) + 1 ])

LongLists == { Ascending(450), Cyclic(200), Cyclic(201) }

Runs ==
         { << "submit_listens", t, l >> : t \in Tokens, l \in ShortLists }
    \cup { << "submit_listens", "tokA", l >> : l \in LongLists }
    \cup { << "submit_feedback", "tokA", l >> : l \in ShortLists }

Init ==
    /\ \E r \in Runs : workflow = r[1] /\ token = r[2] /\ input = r[3]
    /\ pc = "start"
    /\ listens = << >>
    /\ total_count = 0
    /\ submitted_count = 0
    /\ chunk_index = 0
    /\ stdout = << >>
    /\ user_token = None
    /\ next_request_time = 0
    /\ payload = << >>
    /\ listen_type = ""
    /\ retry = 0
    /\ response = NoResponse
    /\ request = NoRequest
    /\ clock = 0
    /\ raised = ""
    /\ errors_logged = 0
    /\ batches = << >>
    /\ statuses = << >>
    /\ attempts = 0
    /\ resetDue = 0
    /\ track_data = << >>
    /\ track_built = None
    /\ peer = NoPeer

Line(kind, submitted, total) ==
    [ kind |-> kind, submitted |-> submitted, total |-> total ]

clientVars == << user_token, next_request_time >>
callVars == << payload, listen_type, retry, response, statuses, attempts >>
runVars == << listens, total_count, submitted_count, chunk_index, stdout, batches >>
inputVars == << workflow, token, input >>
trackVars == << track_data, track_built >>

-----------------------------------------------------------------------------
(* submit_listens / submit_feedback *)

\* listens = process_*_import(file); counts; print; client = ListenBrainzClient()
Start ==
    /\ pc = "start"
    /\ listens' = input
    /\ total_count' = Len(input)
    /\ submitted_count' = 0
    /\ stdout' = Append(stdout, Line("read", 0, Len(input)))
    /\ user_token' = None
    /\ next_request_time' = 0
    /\ pc' = "constructed"
    /\ UNCHANGED << trackVars, peer, inputVars, chunk_index, batches, callVars, request, clock,
                    raised, resetDue, errors_logged >>

\* faulty variant: the token is never set
SetToken_Skipped ==
    /\ pc = "constructed"
    /\ pc' = "sort"
    /\ UNCHANGED << trackVars, peer, inputVars, runVars, clientVars, callVars, request, clock,
                    raised, resetDue, errors_logged >>

\* client.user_token = token
SetToken ==
    /\ pc = "constructed"
    /\ user_token' = << token >>
    /\ pc' = "sort"
    /\ UNCHANGED << trackVars, peer, inputVars, runVars, next_request_time, callVars, request,
                    clock, raised, resetDue, errors_logged >>

\* listens = sorted(listens, key=lambda k: k[0], reverse=True)
SortListens ==
    /\ pc = "sort"
    /\ listens' = sorted(listens)
    /\ pc' = "loop"
    /\ UNCHANGED << trackVars, peer, inputVars, total_count, submitted_count, chunk_index, stdout,
                    batches, clientVars, callVars, request, clock, raised, resetDue, errors_logged >>

\* faulty variant: the next batch is started while a request is still in flight
NextBatch_Eager ==
    /\ pc \in { "loop", "await" }
    /\ workflow = "submit_listens"
    /\ chunk_index < NumChunks(listens, CHUNK_SIZE)
    /\ LET submission == Chunk(listens, CHUNK_SIZE, chunk_index + 1)
       IN  /\ batches' = Append(batches, submission)
           /\ payload' = _get_payload_many(submission)
    /\ chunk_index' = chunk_index + 1
    /\ listen_type' = "import"
    /\ retry' = 0
    /\ response' = NoResponse
    /\ statuses' = << >>
    /\ attempts' = 0
    /\ pc' = "wait"
    /\ UNCHANGED << trackVars, peer, inputVars, listens, total_count, submitted_count, stdout,
                    clientVars, request, clock, raised, resetDue, errors_logged >>

\* for submission in chunks(listens, 200): client.import_tracks(submission)
\* import_tracks: payload = _get_payload_many(tracks); self._submit("import", payload)
NextBatch ==
    /\ pc = "loop"
    /\ workflow = "submit_listens"
    /\ chunk_index < NumChunks(listens, CHUNK_SIZE)
    /\ LET submission == Chunk(listens, CHUNK_SIZE, chunk_index + 1)
       IN  /\ batches' = Append(batches, submission)
           /\ payload' = _get_payload_many(submission)
    /\ chunk_index' = chunk_index + 1
    /\ listen_type' = "import"
    /\ retry' = 0
    /\ response' = NoResponse
    /\ statuses' = << >>
    /\ attempts' = 0
    /\ pc' = "wait"
    /\ UNCHANGED << trackVars, peer, inputVars, listens, total_count, submitted_count, stdout,
                    clientVars, request, clock, raised, resetDue, errors_logged >>

\* faulty variant: the run stops at the first batch that did not end in a 200
BatchDone_FailFast ==
    /\ pc = "return"
    /\ IF response.status = 200
       THEN /\ submitted_count' =
                   submitted_count + Len(Chunk(listens, CHUNK_SIZE, chunk_index))
            /\ stdout' = Append(stdout,
                   Line("progress",
                        submitted_count + Len(Chunk(listens, CHUNK_SIZE, chunk_index)),
                        total_count))
            /\ pc' = "loop"
            /\ raised' = raised
       ELSE /\ pc' = "aborted"
            /\ raised' = "SubmitError"
            /\ UNCHANGED << trackVars, peer, submitted_count, stdout >>
    /\ payload' = << >>
    /\ listen_type' = ""
    /\ retry' = 0
    /\ response' = NoResponse
    /\ statuses' = << >>
    /\ attempts' = 0
    /\ UNCHANGED << trackVars, peer, inputVars, listens, total_count, chunk_index, batches,
                    clientVars, request, clock, resetDue, errors_logged >>

\* faulty variant: every batch is counted as a full one
BatchDone_FullChunk ==
    /\ pc = "return"
    /\ submitted_count' = submitted_count + CHUNK_SIZE
    /\ stdout' = Append(stdout,
           Line("progress", submitted_count + CHUNK_SIZE, total_count))
    /\ payload' = << >>
    /\ listen_type' = ""
    /\ retry' = 0
    /\ response' = NoResponse
    /\ statuses' = << >>
    /\ attempts' = 0
    /\ pc' = "loop"
    /\ UNCHANGED << trackVars, peer, inputVars, listens, total_count, chunk_index, batches,
                    clientVars, request, clock, raised, resetDue, errors_logged >>

\* import_tracks has returned: submitted_count += len(submission); print
BatchDone ==
    /\ pc = "return"
    /\ submitted_count' =
           submitted_count + Len(Chunk(listens, CHUNK_SIZE, chunk_index))
    /\ stdout' = Append(stdout,
           Line("progress",
                submitted_count + Len(Chunk(listens, CHUNK_SIZE, chunk_index)),
                total_count))
    /\ payload' = << >>
    /\ listen_type' = ""
    /\ retry' = 0
    /\ response' = NoResponse
    /\ statuses' = << >>
    /\ attempts' = 0
    /\ pc' = "loop"
    /\ UNCHANGED << trackVars, peer, inputVars, listens, total_count, chunk_index, batches,
                    clientVars, request, clock, raised, resetDue, errors_logged >>

\* the loop is exhausted: print("Submitted all listens")
Finish ==
    /\ pc = "loop"
    /\ workflow = "submit_listens"
    /\ chunk_index >= NumChunks(listens, CHUNK_SIZE)
    /\ stdout' = Append(stdout, Line("done", submitted_count, total_count))
    /\ pc' = "done"
    /\ UNCHANGED << trackVars, peer, inputVars, listens, total_count, submitted_count, chunk_index,
                    batches, clientVars, callVars, request, clock, raised, resetDue, errors_logged >>

\* the methods class ListenBrainzClient defines
ClientMethods ==
    { "__init__", "import_tracks", "_submit", "_wait_for_ratelimit",
      "_handle_ratelimit" }

\* submit_feedback: for _, submission in listens: client.submit_feedback(submission, 1)
\* the attribute lookup fails on the first listen: AttributeError
FeedbackCall ==
    /\ pc = "loop"
    /\ workflow = "submit_feedback"
    /\ Len(listens) > 0
    /\ "submit_feedback" \notin ClientMethods
    /\ raised' = "AttributeError"
    /\ pc' = "aborted"
    /\ UNCHANGED << trackVars, peer, inputVars, runVars, clientVars, callVars, request, clock,
                    resetDue, errors_logged >>

\* submit_feedback over an empty list: print("Submitted all listens")
FeedbackFinish ==
    /\ pc = "loop"
    /\ workflow = "submit_feedback"
    /\ Len(listens) = 0
    /\ stdout' = Append(stdout, Line("done", submitted_count, total_count))
    /\ pc' = "done"
    /\ UNCHANGED << trackVars, peer, inputVars, listens, total_count, submitted_count, chunk_index,
                    batches, clientVars, callVars, request, clock, raised, resetDue, errors_logged >>

-----------------------------------------------------------------------------
(* ListenBrainzClient._submit *)

\* faulty variant: the gate is looked at but the delay is not slept
_wait_for_ratelimit_NoSleep ==
    /\ pc = "wait"
    /\ clock' = clock
    /\ pc' = "send"
    /\ UNCHANGED << trackVars, peer, inputVars, runVars, clientVars, callVars, request, raised,
                    resetDue, errors_logged >>

\* self._wait_for_ratelimit(): time.sleep(delay) returns once the delay is over
_wait_for_ratelimit ==
    /\ pc = "wait"
    /\ clock' = IF MustWait(next_request_time, clock)
                THEN next_request_time * TicksPerSec
                ELSE clock
    /\ pc' = "send"
    /\ UNCHANGED << trackVars, peer, inputVars, runVars, clientVars, callVars, request, raised,
                    resetDue, errors_logged >>

\* faulty variant: a retry re-batches and sends the payload without its first entry
SendRequest_Rebatched ==
    /\ pc = "send"
    /\ request' = [ authorization |-> Authorization(user_token),
                    listen_type |-> listen_type,
                    payload |-> IF attempts >= 1 THEN Tail(payload) ELSE payload ]
    /\ attempts' = attempts + 1
    /\ pc' = "await"
    /\ UNCHANGED << trackVars, peer, inputVars, runVars, clientVars, payload, listen_type, retry,
                    response, statuses, clock, raised, resetDue, errors_logged >>

\* conn.request("POST", PATH_SUBMIT, body, headers)
SendRequest ==
    /\ pc = "send"
    /\ request' = [ authorization |-> Authorization(user_token),
                    listen_type |-> listen_type, payload |-> payload ]
    /\ attempts' = attempts + 1
    /\ pc' = "await"
    /\ UNCHANGED << trackVars, peer, inputVars, runVars, clientVars, payload, listen_type, retry,
                    response, statuses, clock, raised, resetDue, errors_logged >>

\* conn.request / conn.getresponse / response.read raise: nothing catches it
TransportError ==
    /\ pc \in { "send", "await" }
    /\ raised' = "TransportError"
    /\ pc' = "aborted"
    /\ UNCHANGED << trackVars, peer, inputVars, runVars, clientVars, callVars, request, clock,
                    resetDue, errors_logged >>

\* response = conn.getresponse(); self._handle_ratelimit(response); retry or return
HandleResponse ==
    /\ pc = "await"
    /\ \E resp \in Responses :
        /\ _handle_ratelimit(next_request_time, resp, clock) * TicksPerSec <= MaxClock
        /\ response' = resp
        /\ next_request_time' = _handle_ratelimit(next_request_time, resp, clock)
        /\ resetDue' = IF getheader(resp, "X-RateLimit-Remaining", 0) = 0
                       THEN clock + getheader(resp, "X-RateLimit-Reset-In", 0) * TicksPerSec
                       ELSE 0
        /\ statuses' = Append(statuses, resp.status)
        /\ IF ShouldRetry(resp.status, retry)
           THEN \* logger.warning(log_msg); return self._submit(..., retry + 1)
                retry' = retry + 1 /\ pc' = "wait" /\ errors_logged' = errors_logged
           ELSE \* logger.debug on 200, logger.error otherwise; return response
                /\ retry' = retry
                /\ pc' = "return"
                /\ errors_logged' = IF resp.status = 200 THEN errors_logged
                                    ELSE errors_logged + 1
    /\ UNCHANGED << trackVars, peer, inputVars, runVars, user_token, payload, listen_type, attempts,
                    request, clock, raised >>

\* time passes while the client is at work
Tick ==
    /\ pc \in { "wait", "send", "await" }
    /\ clock < MaxClock
    /\ clock' = clock + 1
    /\ UNCHANGED << trackVars, peer, inputVars, pc, runVars, clientVars, callVars, request, raised,
                    resetDue, errors_logged >>

Next ==
    \/ Start
    \/ SetToken
    \/ SortListens
    \/ NextBatch
    \/ BatchDone
    \/ Finish
    \/ FeedbackCall
    \/ FeedbackFinish
    \/ _wait_for_ratelimit
    \/ SendRequest
    \/ TransportError
    \/ HandleResponse
    \/ Tick

Spec == Init /\ [][Next]_vars

\* a run of submit_listens against a server that answers every request;
\* the lists are the short ones and the long ones of up to two batches
InitListens ==
    /\ Init
    /\ workflow = "submit_listens"
    /\ token = "tokA"
    /\ Len(input) <= 2 * CHUNK_SIZE

NextListens ==
    \/ Start
    \/ SetToken
    \/ SortListens
    \/ NextBatch
    \/ BatchDone
    \/ Finish
    \/ _wait_for_ratelimit
    \/ SendRequest
    \/ HandleResponse
    \/ Tick

SpecListens == InitListens /\ [][NextListens]_vars /\ WF_vars(NextListens)

-----------------------------------------------------------------------------
(* Track construction on its own: Track.from_dict, then _get_payload *)

InitTrack ==
    /\ workflow = "from_dict" /\ token = "" /\ input = << >>
    /\ pc = "from_dict"
    /\ track_data \in Dicts
    /\ track_built = None
    /\ listens = << >> /\ total_count = 0 /\ submitted_count = 0
    /\ chunk_index = 0 /\ stdout = << >>
    /\ user_token = None /\ next_request_time = 0
    /\ payload = << >> /\ listen_type = "" /\ retry = 0
    /\ response = NoResponse /\ request = NoRequest
    /\ clock = 0 /\ raised = "" /\ errors_logged = 0
    /\ batches = << >> /\ statuses = << >> /\ attempts = 0 /\ resetDue = 0
    /\ peer = NoPeer

\* track = Track.from_dict({...})
BuildTrack ==
    /\ pc = "from_dict"
    /\ IF from_dict_raises(track_data)
       THEN raised' = "KeyError" /\ pc' = "aborted" /\ track_built' = track_built
       ELSE /\ track_built' = << from_dict(track_data) >>
            /\ pc' = "track" /\ raised' = raised
    /\ UNCHANGED << inputVars, runVars, clientVars, callVars, request, clock,
                    resetDue, errors_logged, track_data, peer >>

\* _get_payload(track, listened_at) of the one-listen payload
TrackPayload ==
    /\ pc = "track"
    /\ \E listened_at \in Stamps :
           payload' = << _get_payload(track_built[1], << listened_at >>) >>
    /\ pc' = "payload"
    /\ UNCHANGED << inputVars, runVars, clientVars, listen_type, retry, response,
                    statuses, attempts, request, clock, raised, resetDue,
                    errors_logged, trackVars, peer >>

NextTrack == BuildTrack \/ TrackPayload

SpecTrack == InitTrack /\ [][NextTrack]_vars

-----------------------------------------------------------------------------
(* Two ListenBrainzClient objects in one process: the client of the run and *)
(* a second one, `peer`, whose _submit calls interleave with the run's.     *)

mainVars == << inputVars, runVars, clientVars, callVars, request, raised,
               resetDue, errors_logged, trackVars >>

\* client = ListenBrainzClient(); client.user_token = token
PeerStart ==
    /\ peer.pc = "none"
    /\ \E t \in Tokens :
           peer' = [ pc |-> "idle", user_token |-> << t >>,
                     next_request_time |-> 0, retry |-> 0 ]
    /\ UNCHANGED << mainVars, pc, clock >>

\* self._submit(listen_type, payload) with retry = 0
PeerSubmit ==
    /\ peer.pc \in { "idle", "return" }
    /\ peer' = [ peer EXCEPT !.pc = "wait", !.retry = 0 ]
    /\ UNCHANGED << mainVars, pc, clock >>

\* self._wait_for_ratelimit() of the second client
PeerWait ==
    /\ peer.pc = "wait"
    /\ clock' = IF MustWait(peer.next_request_time, clock)
                THEN peer.next_request_time * TicksPerSec
                ELSE clock
    /\ peer' = [ peer EXCEPT !.pc = "send" ]
    /\ UNCHANGED << mainVars, pc >>

\* conn.request(...) of the second client
PeerSend ==
    /\ peer.pc = "send"
    /\ peer' = [ peer EXCEPT !.pc = "await" ]
    /\ UNCHANGED << mainVars, pc, clock >>

\* faulty variant: the gate is one attribute shared by all clients
PeerHandle_SharedGate ==
    /\ peer.pc = "await"
    /\ \E resp \in Responses :
        /\ _handle_ratelimit(next_request_time, resp, clock) * TicksPerSec <= MaxClock
        /\ next_request_time' = _handle_ratelimit(next_request_time, resp, clock)
        /\ peer' = [ peer EXCEPT
               !.next_request_time = _handle_ratelimit(next_request_time, resp, clock),
               !.retry = IF ShouldRetry(resp.status, peer.retry) THEN @ + 1 ELSE @,
               !.pc = IF ShouldRetry(resp.status, peer.retry) THEN "wait" ELSE "return" ]
    /\ UNCHANGED << inputVars, runVars, user_token, callVars, request, raised,
                    resetDue, errors_logged, trackVars, pc, clock >>

\* response = conn.getresponse(); self._handle_ratelimit(response); retry or return
PeerHandle ==
    /\ peer.pc = "await"
    /\ \E resp \in Responses :
        /\ _handle_ratelimit(peer.next_request_time, resp, clock) * TicksPerSec <= MaxClock
        /\ peer' = [ peer EXCEPT
               !.next_request_time = _handle_ratelimit(peer.next_request_time, resp, clock),
               !.retry = IF ShouldRetry(resp.status, peer.retry) THEN @ + 1 ELSE @,
               !.pc = IF ShouldRetry(resp.status, peer.retry) THEN "wait" ELSE "return" ]
    /\ UNCHANGED << mainVars, pc, clock >>

\* the run over one listen, with a second client at work beside it
InitTwoClients ==
    /\ Init
    /\ workflow = "submit_listens"
    /\ token = "tokA"
    /\ Len(input) = 1

NextTwoClients ==
    \/ Start
    \/ SetToken
    \/ SortListens
    \/ NextBatch
    \/ BatchDone
    \/ Finish
    \/ _wait_for_ratelimit
    \/ SendRequest
    \/ HandleResponse
    \/ Tick
    \/ PeerStart
    \/ PeerSubmit
    \/ PeerWait
    \/ PeerSend
    \/ PeerHandle

SpecTwoClients == InitTwoClients /\ [][NextTwoClients]_vars

-----------------------------------------------------------------------------
(* Claims *)

InCall == pc \in { "wait", "send", "await", "return" }
SendStep == pc = "send" /\ pc' = "await"
HandleStep == pc = "await" /\ pc' \in { "wait", "return" }

RECURSIVE Flatten(_)
Flatten(ss) == IF ss = << >> THEN << >> ELSE ss[1] \o Flatten(Tail(ss))

\* C1: a _submit call re-sends only after a 429, makes at most 5 retries (6
\* requests); five 429 and then a 200 give six requests and return the 200;
\* six 429 return the sixth 429, and no seventh request is sent.
C1_RetryBound ==
    /\ attempts <= MAX_RETRY + 1
    /\ Len(statuses) <= attempts
    /\ \A i \in 1..(Len(statuses) - 1) : statuses[i] = 429
    /\ (pc \in { "wait", "send" } /\ attempts >= 1) =>
           /\ response.status = 429
           /\ attempts = Len(statuses)
           /\ attempts <= MAX_RETRY
    /\ pc = "return" =>
           /\ attempts = Len(statuses)
           /\ response.status = statuses[Len(statuses)]
           /\ (response.status = 429 => attempts = MAX_RETRY + 1)
    /\ (pc = "return" /\ statuses = << 429, 429, 429, 429, 429, 200 >>) =>
           (attempts = 6 /\ response.status = 200)
    /\ (Len(statuses) = 6 /\ \A i \in 1..6 : statuses[i] = 429) =>
           (pc = "return" /\ attempts = 6 /\ response.status = 429)

C1_Witness == pc = "return" /\ statuses = << 429, 429, 429, 429, 429, 200 >>

\* C2 (as stated): every request is sent no earlier than next_request_time, and
\* after a response with remaining = 0 and reset-in = R handled at time t, no
\* request is sent before t + R.
C2_NotBeforeReset ==
    [][ SendStep => (clock >= next_request_time * TicksPerSec /\ clock >= resetDue) ]_vars

\* C2 (amended): every request is sent no earlier than next_request_time, and
\* after a response with remaining = 0 and reset-in = R handled at time t, no
\* request is sent before int(t + R): more than R - 1 seconds after t.
C2_NotBeforeGate ==
    [][ SendStep =>
          /\ clock >= next_request_time * TicksPerSec
          /\ resetDue > 0 =>
                /\ clock >= IntSeconds(resetDue) * TicksPerSec
                /\ clock + TicksPerSec > resetDue ]_vars

C2_Witness == pc = "await" /\ attempts >= 1 /\ resetDue > 0 /\ clock < resetDue

\* C3: whatever statuses the responses carry, import_tracks returns without
\* raising, every batch of the batching stage is submitted at least once, and
\* the run reaches "Submitted all listens".
C3_RunCompletes ==
    /\ [](pc # "aborted" /\ raised = "")
    /\ [](pc = "return" => attempts >= 1 /\ response # NoResponse)
    /\ <>( /\ pc = "done"
           /\ Len(Flatten(batches)) = Len(input)
           /\ stdout[Len(stdout)].kind = "done" )

C3_Witness == pc = "done" /\ Len(batches) = 2 /\ errors_logged = 2

\* C4 (as stated): a transport failure during one batch does not end the run.
C4_TransportAbsorbed == ~(raised = "TransportError" /\ pc = "aborted")

\* C5: for N listens submit_listens hands the client ceil(N / 200) batches,
\* each of 1..200 listens, all but the last of 200, and their concatenation is
\* the sorted list; 450 listens stamped 1..450 give sizes 200, 200, 50 and a
\* first batch of 450 down to 251.
C5_Batches ==
    (pc = "done" /\ workflow = "submit_listens") =>
        LET N == Len(listens)
            B == Len(batches)
        IN  /\ CHUNK_SIZE * (B - 1) < N
            /\ N <= CHUNK_SIZE * B
            /\ \A k \in 1..B : Len(batches[k]) \in 1..CHUNK_SIZE
            /\ \A k \in 1..(B - 1) : Len(batches[k]) = CHUNK_SIZE
            /\ Flatten(batches) = listens
            /\ input = Ascending(450) =>
                   /\ B = 3
                   /\ Len(batches[1]) = 200 /\ Len(batches[2]) = 200
                   /\ Len(batches[3]) = 50
                   /\ \A i \in 1..200 : batches[1][i][1] = 451 - i

C5_Witness ==
    pc = "done" /\ input = Ascending(450) /\ Len(batches) = 3 /\ submitted_count = 450

\* C6: the list submit_listens submits is a permutation of the adapter's list,
\* non-increasing by listened_at, and listens with equal listened_at keep the
\* order they had in the adapter's list.
C6_StableSort ==
    (pc = "loop" /\ chunk_index = 0) =>
        /\ Len(listens) = Len(input)
        /\ \A i \in 1..Len(input) :
               Cardinality({ j \in 1..Len(listens) : listens[j] = input[i] }) =
               Cardinality({ j \in 1..Len(input) : input[j] = input[i] })
        /\ \A i \in 1..(Len(listens) - 1) : listens[i][1] >= listens[i + 1][1]
        /\ \A i \in 1..(Len(listens) - 1) :
               listens[i][1] = listens[i + 1][1] => listens[i][2] < listens[i + 1][2]

C6_Witness ==
    /\ pc = "loop" /\ chunk_index = 0
    /\ Len(listens) = 201
    /\ listens # input
    /\ listens[1][1] = listens[2][1]

\* C7 (as stated): the feedback run sends one request per listen and reaches
\* "Submitted all listens".
C7_FeedbackPerListen ==
    workflow = "submit_feedback" =>
        /\ raised = ""
        /\ pc # "aborted"
        /\ (pc = "done" /\ Len(listens) > 0) => request # NoRequest

\* C8 (as stated): a client never exists without a token, and every request
\* carries "Token <token>" for the caller's token.
C8_TokenAtConstruction ==
    /\ pc # "start" => user_token # None
    /\ request # NoRequest => request.authorization = "Token " \o token

\* C8 (amended): the client is constructed with user_token unset and the run
\* sets it before the first request; every request carries "Token <token>"
\* for the caller's token, none is sent with an unset token.
C8_TokenOnRequest ==
    /\ pc = "constructed" => user_token = None
    /\ InCall => user_token = << token >>
    /\ request # NoRequest =>
           /\ request.authorization = "Token " \o token
           /\ request.authorization # "Token None"

C8_Witness == pc = "await" /\ request.authorization = "Token tokB"

\* C9: a first response that is neither 200 nor 429 is not retried: the call
\* sends no further request and returns that response without raising.
C9_NoRetryOther ==
    (Len(statuses) >= 1 /\ statuses[1] \notin { 200, 429 }) =>
        /\ pc = "return"
        /\ attempts = 1
        /\ response.status = statuses[1]
        /\ raised = ""

C9_Witness == pc = "return" /\ statuses = << 500 >> /\ attempts = 1

\* C10 (as stated): the gate changes only when a response is handled; then it
\* becomes now + reset_in if remaining is 0 and is unchanged otherwise.
C10_GateNowPlusReset ==
    [][ IF HandleStep
        THEN LET remaining == getheader(response', "X-RateLimit-Remaining", 0)
                 reset_in == getheader(response', "X-RateLimit-Reset-In", 0)
             IN  IF remaining = 0
                 THEN next_request_time' * TicksPerSec = clock + reset_in * TicksPerSec
                 ELSE next_request_time' = next_request_time
        ELSE next_request_time' = next_request_time ]_vars

\* C10 (amended): the gate changes only when a response is handled, which is
\* for every response and before the retry is decided; it becomes the integer
\* part of now + reset_in if remaining is 0 and is unchanged otherwise.
C10_GateIntNowPlusReset ==
    [][ IF HandleStep
        THEN LET rem == IF "X-RateLimit-Remaining" \in DOMAIN response'.headers
                        THEN response'.headers["X-RateLimit-Remaining"] ELSE 0
                 rst == IF "X-RateLimit-Reset-In" \in DOMAIN response'.headers
                        THEN response'.headers["X-RateLimit-Reset-In"] ELSE 0
             IN  /\ response'.status \in Statuses
                 /\ IF rem = 0
                    THEN /\ next_request_time' * TicksPerSec <= clock + rst * TicksPerSec
                         /\ clock + rst * TicksPerSec < (next_request_time' + 1) * TicksPerSec
                    ELSE next_request_time' = next_request_time
        ELSE next_request_time' = next_request_time ]_vars

C10_Witness ==
    /\ pc = "wait"
    /\ response.status = 429
    /\ "X-RateLimit-Remaining" \in DOMAIN response.headers
    /\ response.headers["X-RateLimit-Remaining"] = 0
    /\ next_request_time >= 1
    /\ next_request_time * TicksPerSec < resetDue

\* C11 (as stated): after a response that lacks the remaining-quota header,
\* the reset-in header or both, the next request does not wait at the gate.
C11_MissingHeadersNoWait ==
    ( /\ pc \in { "wait", "return" }
      /\ response # NoResponse
      /\ DOMAIN response.headers # HeaderNames ) =>
        ~MustWait(next_request_time, clock)

\* C13 (as stated): no additional_info sent carries a key whose value is
\* empty, zero, false or null; release_name and additional_info are left out
\* when absent or empty.
C13_NoFalsyInfo ==
    \A i \in 1..Len(request.payload) :
        LET meta == request.payload[i].track_metadata
        IN  /\ "release_name" \in DOMAIN meta => meta.release_name # ""
            /\ "additional_info" \in DOMAIN meta =>
                   /\ DOMAIN meta.additional_info # {}
                   /\ \A k \in DOMAIN meta.additional_info :
                          IF k \in { "duration", "duration_ms" }
                          THEN meta.additional_info[k] # 0
                          ELSE meta.additional_info[k] # ""

\* C14: every retry of a _submit call sends the listen_type and the payload of
\* the call's first attempt, entry for entry; the first attempt sends the
\* payload built from the batch, and nothing alters the payload during the call.
C14_RetrySamePayload ==
    [][ /\ (SendStep /\ attempts = 0) =>
               /\ request'.listen_type = "import"
               /\ request'.payload = _get_payload_many(batches[Len(batches)])
        /\ (SendStep /\ attempts >= 1) =>
               /\ request'.listen_type = request.listen_type
               /\ request'.payload = request.payload
        /\ (InCall /\ InCall') => (payload' = payload /\ listen_type' = listen_type)
      ]_vars

C14_Witness ==
    pc = "await" /\ attempts >= 2 /\ retry >= 1 /\ Len(request.payload) = CHUNK_SIZE

\* C15: one request at most is in flight; batch k+1 is started only after the
\* _submit call of batch k has returned and been counted; every request carries
\* the newest batch started; the batches are the consecutive slices of the
\* sorted list, newest listens first.
C15_Sequential ==
    [][ /\ Len(batches') # Len(batches) =>
               /\ pc = "loop" /\ pc' = "wait"
               /\ Len(batches') = Len(batches) + 1
               /\ Len(stdout) = Len(batches) + 1
               /\ stdout[Len(stdout)].kind = IF batches = << >> THEN "read" ELSE "progress"
               /\ batches'[Len(batches')] =
                      SubSeq(listens, CHUNK_SIZE * Len(batches) + 1,
                             Min(CHUNK_SIZE * (Len(batches) + 1), Len(listens)))
               /\ SubSeq(batches', 1, Len(batches)) = batches
        /\ SendStep =>
               /\ Len(stdout) = Len(batches)
               /\ request'.payload = _get_payload_many(batches[Len(batches)])
        /\ (pc = "await" /\ pc' # "await") => (HandleStep \/ pc' = "aborted")
        /\ \A k \in 1..(Len(batches) - 1) :
               batches[k][CHUNK_SIZE][1] >= batches[k + 1][1][1]
      ]_vars

C15_Witness ==
    /\ pc = "await" /\ Len(batches) = 3 /\ attempts >= 2
    /\ request.payload = _get_payload_many(batches[3])
    /\ batches[1][1][1] = 450

RECURSIVE SizeOfFirst(_, _)
SizeOfFirst(bs, k) == IF k = 0 THEN 0 ELSE SizeOfFirst(bs, k - 1) + Len(bs[k])

\* C17: the k-th progress line reports the total size of the first k batches
\* and total_count; submitted_count never decreases, never exceeds total_count
\* and equals total_count at the "done" line, whatever the responses were.
C17_Progress ==
    /\ [] ( workflow = "submit_listens" =>
              /\ submitted_count <= total_count
              /\ \A k \in 1..(Len(stdout) - 1) :
                     k <= Len(batches) =>
                         stdout[k + 1] =
                             Line("progress", SizeOfFirst(batches, k), Len(input))
              /\ (Len(stdout) >= 1 /\ pc # "done") =>
                     submitted_count = SizeOfFirst(batches, Len(stdout) - 1)
              /\ pc = "done" =>
                     /\ submitted_count = total_count
                     /\ total_count = Len(input)
                     /\ stdout[Len(stdout)] = Line("done", Len(input), Len(input)) )
    /\ [][ submitted_count' >= submitted_count ]_vars

C17_Witness ==
    /\ pc = "done" /\ submitted_count = 450 /\ errors_logged >= 1
    /\ stdout[3] = Line("progress", 400, 450)

\* C20: a client's next_request_time never decreases: a response is handled
\* only once the gate has been waited out, and the new gate is the integer
\* part of now + reset_in.
C20_GateMonotonic ==
    [][ /\ next_request_time' >= next_request_time
        /\ HandleStep => clock >= next_request_time * TicksPerSec
      ]_vars

C20_Witness ==
    /\ pc = "return" /\ Len(statuses) >= 2
    /\ next_request_time = 1 /\ clock >= TicksPerSec /\ resetDue = clock

\* C16: a _submit call starts with no retries made, waits for quota, sends,
\* and on the response either goes back to wait (429 with retries left) or
\* ends: success on 200, failure on 429 with no retry left, reported failure
\* otherwise. With every request answered the call ends and the run finishes.
C16_StateMachine ==
    /\ [][ /\ (pc # "wait" /\ pc' = "wait") =>
                  \/ pc = "loop" /\ retry' = 0 /\ attempts' = 0
                  \/ /\ pc = "await" /\ response'.status = 429
                     /\ retry < MAX_RETRY /\ retry' = retry + 1
           /\ (pc = "wait" /\ pc' # "wait") =>
                  (pc' = "send" /\ clock' >= next_request_time * TicksPerSec)
           /\ (pc = "send" /\ pc' # "send") => pc' = "await"
           /\ (pc = "await" /\ pc' # "await") => pc' \in { "wait", "return" }
           /\ (pc = "await" /\ pc' = "return") =>
                  /\ retry' = retry
                  /\ \/ response'.status = 200 /\ errors_logged' = errors_logged
                     \/ /\ response'.status = 429 /\ retry = MAX_RETRY
                        /\ errors_logged' = errors_logged + 1
                     \/ /\ response'.status \notin { 200, 429 }
                        /\ errors_logged' = errors_logged + 1
         ]_vars
    /\ (pc = "wait" /\ attempts = 0) ~> (pc = "return")
    /\ <>(pc = "done")

C16_Witness ==
    /\ pc = "return" /\ response.status = 429 /\ retry = MAX_RETRY
    /\ attempts = MAX_RETRY + 1 /\ Len(batches) = 2

\* C18: with an empty list submit_listens builds no batch, sends no request,
\* leaves next_request_time at 0, raises nothing, and reaches "Submitted all
\* listens" with submitted_count = total_count = 0.
C18_EmptyList ==
    /\ [] ( input = << >> =>
              /\ batches = << >> /\ chunk_index = 0
              /\ request = NoRequest /\ attempts = 0
              /\ next_request_time = 0
              /\ raised = ""
              /\ pc \in { "start", "constructed", "sort", "loop", "done" }
              /\ submitted_count = 0 /\ total_count = 0 )
    /\ (input = << >>) ~>
           ( /\ pc = "done"
             /\ stdout = << Line("read", 0, 0), Line("done", 0, 0) >> )

C18_Witness ==
    /\ pc = "done" /\ input = << >> /\ NumChunks(listens, CHUNK_SIZE) = 0
    /\ stdout[Len(stdout)] = Line("done", 0, 0)

\* C12 (as stated): building a Track from a dictionary whose artist_name or
\* track_name is missing or empty fails, and no payload entry carries an empty
\* artist_name or track_name.
C12_NamesValidated ==
    /\ ( /\ pc # "from_dict"
         /\ workflow = "from_dict"
         /\ \/ get(track_data, "artist_name") \in { None, << "" >> }
            \/ get(track_data, "track_name") \in { None, << "" >> } ) =>
           (pc = "aborted" /\ raised # "" /\ track_built = None)
    /\ workflow = "from_dict" =>
           \A i \in 1..Len(payload) :
               /\ payload[i].track_metadata.artist_name # ""
               /\ payload[i].track_metadata.track_name # ""

\* C19: a client is constructed with gate 0 and its first request does not
\* wait; a response handled by one client changes that client's gate only,
\* however the _submit calls of the two clients interleave.
C19_GatePerClient ==
    [][ /\ pc' = "constructed" => next_request_time' = 0
        /\ (peer.pc = "none" /\ peer'.pc # "none") => peer'.next_request_time = 0
        /\ (pc = "wait" /\ pc' = "send" /\ Len(batches) = 1 /\ attempts = 0) =>
               clock' = clock
        /\ (peer.pc = "wait" /\ peer'.pc = "send" /\ peer.next_request_time = 0) =>
               clock' = clock
        /\ HandleStep => peer' = peer
        /\ (peer.pc = "await" /\ peer'.pc # "await") =>
               /\ next_request_time' = next_request_time
               /\ \E resp \in Responses :
                      peer'.next_request_time =
                          _handle_ratelimit(peer.next_request_time, resp, clock)
        /\ next_request_time' # next_request_time => HandleStep
        /\ peer'.next_request_time # peer.next_request_time =>
               (peer.pc = "await" /\ peer'.pc # "await")
      ]_vars

C19_Witness ==
    /\ pc = "return" /\ peer.pc = "return"
    /\ next_request_time = 1 /\ peer.next_request_time = 0
    /\ peer.user_token # user_token

====
